---- MODULE Spec2Model ----
(***************************************************************************)
(* A model of geneos-toolkit's dataview module (src/src/dataview.rs): the  *)
(* Row helper, the DataviewBuilder and its build(), and Display for        *)
(* Dataview (the rendered text, a sequence of bytes).                      *)
(*                                                                         *)
(* A Rust String is modelled as the sequence of its bytes, so "a," is      *)
(* <<97, 44>> and the empty string is <<>>.  Option<T> is modelled as a    *)
(* sequence of length 0 (None) or 1 (Some).  A HashMap is a function whose *)
(* DOMAIN is its key set.                                                  *)
(***************************************************************************)
EXTENDS Integers, Sequences, FiniteSets, TLC

\* ---------------------------------------------------------------- bounds
\* Largest number of logged builder calls (cells written, headlines added,
\* sorts) in one chain; set_row_header calls are not limited.
MaxOps == 3
\* Largest number of cells of a Row handed to add_row.
MaxCells == 2
\* Largest length of the string put into one field of a rendered dataview.
MaxFieldLen == 2

\* ---------------------------------------------------------------- inputs
\* "b", "a", "a,"
RowNames == {<<98>>, <<97>>, <<97, 44>>}
\* "x", ",y"
ColNames == {<<120>>, <<44, 121>>}
\* The builder stores a value and never looks into it, so the n-th value
\* written (to a cell, or to a headline) is a string of its own: the digit of
\* n, followed by a comma when n is even: "1", "2,", "3", "4,", ...
FreshValue(n) == IF n % 2 = 0 THEN <<48 + n, 44>> ELSE <<48 + n>>
\* "", "i,d"
HeaderLabels == {<<>>, <<105, 44, 100>>}
\* "h", "k,"
HeadlineKeys == {<<104>>, <<107, 44>>}
\* key selectors handed to sort_rows_by: |name| name.len()
KeyFns == {"len"}
\* comparators handed to sort_rows_with: |a, b| b.cmp(a) and
\* |a, b| a.len().cmp(&b.len())
Comparators == {"reverse", "bylen"}

\* ---------------------------------------------------------------- Option, Vec, HashMap
None == <<>>
Some(x) == <<x>>
unwrap(o) == o[1]
EmptyMap == [k \in {} |-> <<>>]
unwrap_or_default(o) == IF o = None THEN EmptyMap ELSE o[1]
\* Vec::contains
contains(v, x) == \E i \in 1..Len(v) : v[i] = x
\* Vec::push
push(v, x) == Append(v, x)
\* HashMap::insert
insert(m, k, x) == [y \in (DOMAIN m) \cup {k} |-> IF y = k THEN x ELSE m[y]]
\* HashMap::get
get(m, k) == IF k \in DOMAIN m THEN Some(m[k]) ELSE None

\* ---------------------------------------------------------------- ordering of strings
\* Ord for str: lexicographic on bytes; -1 Less, 0 Equal, 1 Greater.
RECURSIVE str_cmp(_, _)
str_cmp(a, b) ==
    IF a = <<>> /\ b = <<>> THEN 0
    ELSE IF a = <<>> THEN -1
    ELSE IF b = <<>> THEN 1
    ELSE IF a[1] < b[1] THEN -1
    ELSE IF a[1] > b[1] THEN 1
    ELSE str_cmp(Tail(a), Tail(b))

int_cmp(x, y) == IF x < y THEN -1 ELSE IF x > y THEN 1 ELSE 0

\* The key a sort_rows_by selector computes for a row name.
key_of(f, name) == IF f = "len" THEN Len(name) ELSE 0

\* The Ordering a sort_rows_with comparator returns for (a, b).
cmp_of(c, a, b) ==
    IF c = "reverse" THEN str_cmp(b, a)
    ELSE IF c = "bylen" THEN int_cmp(Len(a), Len(b))
    ELSE str_cmp(a, b)

\* The three comparisons the sort methods hand to the slice sort:
\* <<"ord">> for sort(), <<"key", f>> for sort_by_key, <<"cmp", c>> for sort_by.
compare(how, a, b) ==
    IF how[1] = "ord" THEN str_cmp(a, b)
    ELSE IF how[1] = "key" THEN int_cmp(key_of(how[2], a), key_of(how[2], b))
    ELSE cmp_of(how[2], a, b)

\* slice::sort / sort_by_key / sort_by are stable: an element is placed
\* after every element that does not compare Greater than it.
RECURSIVE stable_insert(_, _, _)
stable_insert(how, sorted, x) ==
    IF sorted = <<>> THEN <<x>>
    ELSE IF compare(how, x, sorted[1]) < 0 THEN <<x>> \o sorted
    ELSE <<sorted[1]>> \o stable_insert(how, Tail(sorted), x)

RECURSIVE stable_sort_from(_, _, _)
stable_sort_from(how, sorted, rest) ==
    IF rest = <<>> THEN sorted
    ELSE stable_sort_from(how, stable_insert(how, sorted, rest[1]), Tail(rest))

stable_sort(how, v) == stable_sort_from(how, <<>>, v)

\* ---------------------------------------------------------------- Row
Row_new(name) == [name |-> name, cells |-> <<>>]
\* add_cell that leaves a Row alone that already has a cell of the column.
add_cell_dedup(self, column, value) ==
    IF \E i \in 1..Len(self.cells) : self.cells[i][1] = column
    THEN self
    ELSE [self EXCEPT !.cells = push(self.cells, <<column, value>>)]

add_cell(self, column, value) ==
    [self EXCEPT !.cells = push(self.cells, <<column, value>>)]

\* Every sequence of at most n column names.
RECURSIVE ColSeqsUpTo(_)
ColSeqsUpTo(n) ==
    IF n = 0 THEN {<<>>}
    ELSE ColSeqsUpTo(n - 1) \cup
         {Append(cs, c) : cs \in ColSeqsUpTo(n - 1), c \in ColNames}

\* The column sequences of the Rows handed to add_row.
RowColumns == ColSeqsUpTo(MaxCells)

\* Row::new(name).add_cell(columns[1], v1).add_cell(columns[2], v2)...,
\* the values being the fresh values after the first written.
RECURSIVE RowOf(_, _, _)
RowOf(name, columns, written) ==
    IF columns = <<>> THEN Row_new(name)
    ELSE add_cell(RowOf(name, SubSeq(columns, 1, Len(columns) - 1), written),
                  columns[Len(columns)], FreshValue(written + Len(columns)))

\* ---------------------------------------------------------------- DataviewBuilder
new ==
    [row_header |-> None, headlines |-> None, values |-> None,
     headline_order |-> <<>>, column_order |-> <<>>, row_order |-> <<>>]

\* set_row_header that takes an empty label for "no header".
set_row_header_nonempty(self, row_header) ==
    IF row_header = <<>> THEN self ELSE [self EXCEPT !.row_header = Some(row_header)]

\* set_row_header that keeps a header already set.
set_row_header_keep_first(self, row_header) ==
    IF self.row_header = None THEN [self EXCEPT !.row_header = Some(row_header)] ELSE self

\* set_row_header that starts over from an empty builder.
set_row_header_from_default(self, row_header) ==
    [new EXCEPT !.row_header = Some(row_header)]

set_row_header(self, row_header) ==
    [self EXCEPT !.row_header = Some(row_header)]

\* add_headline that pushes the key without looking it up first.
add_headline_always_push(self, key, value) ==
    LET headlines == unwrap_or_default(self.headlines)
    IN [self EXCEPT !.headline_order = push(self.headline_order, key),
                    !.headlines = Some(insert(headlines, key, value))]

\* add_headline that moves a key it already holds to the end.
add_headline_move_to_end(self, key, value) ==
    LET headlines == unwrap_or_default(self.headlines)
        others == SelectSeq(self.headline_order, LAMBDA k : k # key)
    IN [self EXCEPT !.headline_order = push(others, key),
                    !.headlines = Some(insert(headlines, key, value))]

add_headline(self, key, value) ==
    LET headlines == unwrap_or_default(self.headlines)
        order == IF ~contains(self.headline_order, key)
                 THEN push(self.headline_order, key)
                 ELSE self.headline_order
    IN [self EXCEPT !.headline_order = order,
                    !.headlines = Some(insert(headlines, key, value))]

\* add_value that pushes the row name without looking it up first.
add_value_always_push_row(self, row, column, value) ==
    LET values == unwrap_or_default(self.values)
        cols == IF ~contains(self.column_order, column)
                THEN push(self.column_order, column)
                ELSE self.column_order
    IN [self EXCEPT !.column_order = cols,
                    !.row_order = push(self.row_order, row),
                    !.values = Some(insert(values, <<row, column>>, value))]

\* add_value that puts a new column in front of the known ones.
add_value_new_column_first(self, row, column, value) ==
    LET values == unwrap_or_default(self.values)
        cols == IF ~contains(self.column_order, column)
                THEN <<column>> \o self.column_order
                ELSE self.column_order
        rows == IF ~contains(self.row_order, row)
                THEN push(self.row_order, row)
                ELSE self.row_order
    IN [self EXCEPT !.column_order = cols,
                    !.row_order = rows,
                    !.values = Some(insert(values, <<row, column>>, value))]

\* add_value that keeps the value a pair already has.
add_value_keep_first(self, row, column, value) ==
    LET values == unwrap_or_default(self.values)
        cols == IF ~contains(self.column_order, column)
                THEN push(self.column_order, column)
                ELSE self.column_order
        rows == IF ~contains(self.row_order, row)
                THEN push(self.row_order, row)
                ELSE self.row_order
        kept == IF <<row, column>> \in DOMAIN values
                THEN values
                ELSE insert(values, <<row, column>>, value)
    IN [self EXCEPT !.column_order = cols,
                    !.row_order = rows,
                    !.values = Some(kept)]

\* add_value that puts a new row where the default order of the names has it.
add_value_new_row_in_order(self, row, column, value) ==
    LET values == unwrap_or_default(self.values)
        cols == IF ~contains(self.column_order, column)
                THEN push(self.column_order, column)
                ELSE self.column_order
        rows == IF ~contains(self.row_order, row)
                THEN stable_insert(<<"ord">>, self.row_order, row)
                ELSE self.row_order
    IN [self EXCEPT !.column_order = cols,
                    !.row_order = rows,
                    !.values = Some(insert(values, <<row, column>>, value))]

\* add_value that takes a map that is there but empty for a map with cells.
add_value_into_empty_map(self, row, column, value) ==
    LET values == unwrap_or_default(self.values)
        cols == IF ~contains(self.column_order, column)
                THEN push(self.column_order, column)
                ELSE self.column_order
        rows == IF ~contains(self.row_order, row)
                THEN push(self.row_order, row)
                ELSE self.row_order
    IN IF self.values = None
       THEN [self EXCEPT !.values = Some(EmptyMap)]
       ELSE [self EXCEPT !.column_order = cols,
                         !.row_order = rows,
                         !.values = Some(insert(values, <<row, column>>, value))]

add_value(self, row, column, value) ==
    LET values == unwrap_or_default(self.values)
        cols == IF ~contains(self.column_order, column)
                THEN push(self.column_order, column)
                ELSE self.column_order
        rows == IF ~contains(self.row_order, row)
                THEN push(self.row_order, row)
                ELSE self.row_order
    IN [self EXCEPT !.column_order = cols,
                    !.row_order = rows,
                    !.values = Some(insert(values, <<row, column>>, value))]

\* for (col, val) in row.cells { self = self.add_value(&row.name, &col, &val) }
RECURSIVE add_cells_from(_, _, _)
add_cells_from(self, name, cells) ==
    IF cells = <<>> THEN self
    ELSE add_cells_from(add_value(self, name, cells[1][1], cells[1][2]), name, Tail(cells))

\* add_row that walks the cells of the row from the last to the first.
add_row_reversed(self, row) ==
    add_cells_from(self, row.name,
                   [i \in 1..Len(row.cells) |-> row.cells[Len(row.cells) + 1 - i]])

\* add_row that registers the name of the row before it walks the cells, so
\* that a row without cells is listed too.
add_row_registers_name(self, row) ==
    LET rows == IF ~contains(self.row_order, row.name)
                THEN push(self.row_order, row.name)
                ELSE self.row_order
        listed == [self EXCEPT !.row_order = rows,
                               !.values = Some(unwrap_or_default(self.values))]
    IN add_cells_from(listed, row.name, row.cells)

add_row(self, row) == add_cells_from(self, row.name, row.cells)

\* sort_rows that orders the names from the greatest to the least.
sort_rows_descending(self) ==
    [self EXCEPT !.row_order = stable_sort(<<"cmp", "reverse">>, self.row_order)]

sort_rows(self) ==
    [self EXCEPT !.row_order = stable_sort(<<"ord">>, self.row_order)]

\* sort_rows_by that sorts the columns the same way as the rows.
sort_rows_by_and_columns(self, f) ==
    [self EXCEPT !.row_order = stable_sort(<<"key", f>>, self.row_order),
                 !.column_order = stable_sort(<<"key", f>>, self.column_order)]

\* sort_rows_by that places rows of equal key from the greatest name to the least.
sort_rows_by_unstable(self, f) ==
    [self EXCEPT !.row_order =
        stable_sort(<<"key", f>>, stable_sort(<<"cmp", "reverse">>, self.row_order))]

sort_rows_by(self, f) ==
    [self EXCEPT !.row_order = stable_sort(<<"key", f>>, self.row_order)]

\* sort_rows_with that sorts by the default comparison whatever it is given.
sort_rows_with_default(self, cmp) ==
    [self EXCEPT !.row_order = stable_sort(<<"ord">>, self.row_order)]

sort_rows_with(self, cmp) ==
    [self EXCEPT !.row_order = stable_sort(<<"cmp", cmp>>, self.row_order)]

Err(e) == [tag |-> "Err", error |-> e]
Ok(d) == [tag |-> "Ok", dataview |-> d]

\* build() that unwraps the row header: a panic when it was never set.
build_unwrap_header(self) ==
    IF self.row_header = None THEN [tag |-> "Panic"]
    ELSE IF self.values = None THEN Err("MissingValue")
    ELSE Ok([row_header |-> unwrap(self.row_header),
             headlines |-> unwrap_or_default(self.headlines),
             headline_order |-> self.headline_order,
             values |-> unwrap(self.values),
             column_order |-> self.column_order,
             row_order |-> self.row_order])

\* build() with the two checks in the opposite order.
build_values_first(self) ==
    IF self.values = None THEN Err("MissingValue")
    ELSE IF self.row_header = None THEN Err("MissingRowHeader")
    ELSE Ok([row_header |-> unwrap(self.row_header),
             headlines |-> unwrap_or_default(self.headlines),
             headline_order |-> self.headline_order,
             values |-> unwrap(self.values),
             column_order |-> self.column_order,
             row_order |-> self.row_order])

\* build() that takes a headline for content: MissingValue only when there
\* is neither a value map nor a headline map.
build_headlines_count(self) ==
    IF self.row_header = None THEN Err("MissingRowHeader")
    ELSE IF self.values = None /\ self.headlines = None THEN Err("MissingValue")
    ELSE Ok([row_header |-> unwrap(self.row_header),
             headlines |-> unwrap_or_default(self.headlines),
             headline_order |-> self.headline_order,
             values |-> unwrap_or_default(self.values),
             column_order |-> self.column_order,
             row_order |-> self.row_order])

build(self) ==
    IF self.row_header = None THEN Err("MissingRowHeader")
    ELSE IF self.values = None THEN Err("MissingValue")
    ELSE Ok([row_header |-> unwrap(self.row_header),
             headlines |-> unwrap_or_default(self.headlines),
             headline_order |-> self.headline_order,
             values |-> unwrap(self.values),
             column_order |-> self.column_order,
             row_order |-> self.row_order])

\* ---------------------------------------------------------------- env
\* Result<String, EnvError>::Ok
EnvOk(v) == [tag |-> "Ok", value |-> v]
\* EnvError variants, as Err values.
VarError(e) == Err(<<"VarError", e>>)
DecryptionFailed(msg) == Err(<<"DecryptionFailed", msg>>)
MissingKeyFile == Err(<<"MissingKeyFile">>)
IoError(e) == Err(<<"IoError", e>>)
KeyFileFormatError(msg) == Err(<<"KeyFileFormatError", msg>>)

\* std::env::var(name), for the variable of the environment: Ok(value),
\* Err(NotPresent), or Err(NotUnicode) when the value is not valid Unicode.
env_var(variable) ==
    IF variable.state = "Set" THEN EnvOk(variable.value)
    ELSE [tag |-> "Err", error |-> variable.state]

\* get_var: Ok(env::var(name)?), the VarError converted by From.
get_var(variable) ==
    LET r == env_var(variable)
    IN IF r.tag = "Err" THEN VarError(r.error) ELSE EnvOk(r.value)

\* str::starts_with
starts_with(s, prefix) == Len(s) >= Len(prefix) /\ SubSeq(s, 1, Len(prefix)) = prefix

\* "+encs+"
EncsPrefix == <<43, 101, 110, 99, 115, 43>>

is_encrypted(value) == starts_with(value, EncsPrefix)

\* str::trim over the white space of the key files: space, tab, carriage return.
IsSpace(b) == b \in {32, 9, 13}
RECURSIVE trim_start(_)
trim_start(s) == IF s # <<>> /\ IsSpace(s[1]) THEN trim_start(Tail(s)) ELSE s
RECURSIVE trim_end(_)
trim_end(s) ==
    IF s # <<>> /\ IsSpace(s[Len(s)]) THEN trim_end(SubSeq(s, 1, Len(s) - 1)) ELSE s
trim(s) == trim_end(trim_start(s))

\* str::split_once('='): None, or Some(<<before, after>>) of the first '='.
split_once(s, delimiter) ==
    IF \A i \in 1..Len(s) : s[i] # delimiter THEN None
    ELSE LET at == CHOOSE i \in 1..Len(s) :
                       s[i] = delimiter /\ \A j \in 1..(i - 1) : s[j] # delimiter
         IN Some(<<SubSeq(s, 1, at - 1), SubSeq(s, at + 1, Len(s))>>)

\* The loop of parse_key_file over reader.lines(): a line is Ok(bytes) or an
\* Err of the reader; found holds salt, key and iv as Options.
RECURSIVE parse_lines(_, _, _)
parse_lines(lines, line_num, found) ==
    IF lines = <<>> THEN EnvOk(found)
    ELSE IF lines[1].tag = "Err" THEN IoError(lines[1].error)
    ELSE LET line == trim(lines[1].value)
             rest == Tail(lines)
             pair == split_once(line, 61)
         IN IF line = <<>> THEN parse_lines(rest, line_num + 1, found)
            ELSE IF pair = None THEN parse_lines(rest, line_num + 1, found)
            ELSE IF unwrap(pair)[1] = <<115, 97, 108, 116>>
                 THEN parse_lines(rest, line_num + 1,
                                  [found EXCEPT !.salt = Some(unwrap(pair)[2])])
            ELSE IF unwrap(pair)[1] = <<107, 101, 121>>
                 THEN parse_lines(rest, line_num + 1,
                                  [found EXCEPT !.key = Some(unwrap(pair)[2])])
            ELSE IF unwrap(pair)[1] = <<105, 118>>
                 THEN parse_lines(rest, line_num + 1,
                                  [found EXCEPT !.iv = Some(unwrap(pair)[2])])
            ELSE KeyFileFormatError(<<"Unexpected content at line", line_num, unwrap(pair)[1]>>)

\* parse_key_file(path), for the file at path: Ok(<<salt, key, iv>>) or an Err.
parse_key_file(file) ==
    IF ~file.exists THEN MissingKeyFile
    ELSE LET r == parse_lines(file.lines, 1, [salt |-> None, key |-> None, iv |-> None])
         IN IF r.tag = "Err" THEN r
            ELSE IF r.value.salt = None THEN KeyFileFormatError("Missing salt in key file")
            ELSE IF r.value.key = None THEN KeyFileFormatError("Missing key in key file")
            ELSE IF r.value.iv = None THEN KeyFileFormatError("Missing iv in key file")
            ELSE EnvOk(<<unwrap(r.value.salt), unwrap(r.value.key), unwrap(r.value.iv)>>)

\* The value of a hexadecimal digit, -1 for any other byte.
hex_val(b) ==
    IF b \in 48..57 THEN b - 48
    ELSE IF b \in 65..70 THEN b - 55
    ELSE IF b \in 97..102 THEN b - 87
    ELSE 0 - 1

\* Vec::from_hex
from_hex(s) ==
    IF Len(s) % 2 # 0 THEN Err("OddLength")
    ELSE IF \E i \in 1..Len(s) : hex_val(s[i]) < 0 THEN Err("InvalidHexCharacter")
    ELSE EnvOk([i \in 1..(Len(s) \div 2) |-> 16 * hex_val(s[2 * i - 1]) + hex_val(s[2 * i])])

\* Decryptor::<Aes256>::new_from_slices(key, iv).decrypt_padded_mut::<Pkcs7>(data),
\* a function of the aes and cbc crates. The cipher itself is not computed:
\* with a key of 32 and an iv of 16 bytes, data that is not a positive number
\* of 16-byte blocks cannot be unpadded, and for whole blocks the first byte
\* of data stands for what the blocks decrypt to.
aes256_cbc_pkcs7_decrypt(key, iv, data) ==
    IF Len(key) # 32 \/ Len(iv) # 16 THEN Err("InvalidLength")
    ELSE IF data = <<>> \/ Len(data) % 16 # 0 THEN Err("UnpadError")
    ELSE IF data[1] = 161 THEN EnvOk(<<49, 50, 51, 52, 53>>)
    ELSE IF data[1] = 195 THEN EnvOk(<<255, 254>>)
    ELSE Err("UnpadError")

\* String::from_utf8, for the plaintexts above: bytes below 128 are UTF-8,
\* a byte 254 or 255 never is.
from_utf8(bytes) ==
    IF \E i \in 1..Len(bytes) : bytes[i] >= 128 THEN Err("FromUtf8Error") ELSE EnvOk(bytes)

\* decrypt(value, key_file), for the file at key_file
decrypt(value, key_file) ==
    IF Len(value) < 6 \/ ~is_encrypted(value) THEN EnvOk(value)
    ELSE LET hex == SubSeq(value, 7, Len(value))
             encrypted_bytes == from_hex(hex)
             parsed == parse_key_file(key_file)
             key_bytes == from_hex(parsed.value[2])
             iv_bytes == from_hex(parsed.value[3])
             decrypted_bytes ==
                 aes256_cbc_pkcs7_decrypt(key_bytes.value, iv_bytes.value, encrypted_bytes.value)
             string == from_utf8(decrypted_bytes.value)
         IN IF encrypted_bytes.tag = "Err" THEN DecryptionFailed("Invalid hex encoding")
            ELSE IF parsed.tag = "Err" THEN parsed
            ELSE IF key_bytes.tag = "Err" THEN DecryptionFailed("Invalid key hex")
            ELSE IF iv_bytes.tag = "Err" THEN DecryptionFailed("Invalid iv hex")
            ELSE IF decrypted_bytes.tag = "Err"
                 THEN IF decrypted_bytes.error = "InvalidLength"
                      THEN DecryptionFailed("Invalid key or IV length")
                      ELSE DecryptionFailed("Decryption failed")
            ELSE IF string.tag = "Err" THEN DecryptionFailed("Invalid UTF-8 in decrypted data")
            ELSE string

\* get_secure_var_or(name, key_file, default)
get_secure_var_or(variable, key_file, default) ==
    LET r == get_var(variable)
    IN IF r.tag = "Ok"
       THEN IF is_encrypted(r.value) THEN decrypt(r.value, key_file) ELSE EnvOk(r.value)
       ELSE IF r.error[1] = "VarError" THEN EnvOk(default)
       ELSE r

\* ---------------------------------------------------------------- Display for Dataview
\* str::replace(from, to): the non-overlapping matches of from (not empty),
\* found from the left, each replaced by to.
RECURSIVE replace(_, _, _)
replace(s, from, to) ==
    IF Len(s) < Len(from) THEN s
    ELSE IF SubSeq(s, 1, Len(from)) = from
         THEN to \o replace(SubSeq(s, Len(from) + 1, Len(s)), from, to)
         ELSE <<s[1]>> \o replace(Tail(s), from, to)

\* escape_commas that escapes the first comma only.
escape_commas_first_only(s) ==
    IF \A i \in 1..Len(s) : s[i] # 44 THEN s
    ELSE LET at == CHOOSE i \in 1..Len(s) : s[i] = 44 /\ \A j \in 1..(i - 1) : s[j] # 44
         IN SubSeq(s, 1, at - 1) \o <<92, 44>> \o SubSeq(s, at + 1, Len(s))

\* escape_commas that escapes the backslash as well.
escape_commas_and_backslashes(s) ==
    replace(replace(s, <<92>>, <<92, 92>>), <<44>>, <<92, 44>>)

\* s.replace(",", "\\,")
escape_commas(s) == replace(s, <<44>>, <<92, 44>>)

\* write!(f, ...) appends to the text written so far; writeln! adds "\n".
\* for col in columns { write!(f, ",{}", escape_commas(col)) }
RECURSIVE write_columns(_, _)
write_columns(f, columns) ==
    IF columns = <<>> THEN f
    ELSE write_columns(f \o <<44>> \o escape_commas(columns[1]), Tail(columns))

\* write_header_row that writes the row header as it is.
write_header_row_raw(f, row_header, columns) ==
    write_columns(f \o row_header, columns) \o <<10>>

write_header_row(f, row_header, columns) ==
    write_columns(f \o escape_commas(row_header), columns) \o <<10>>

\* write_headlines that walks headline_order from its last name to its first.
RECURSIVE write_headlines_backwards(_, _, _)
write_headlines_backwards(f, headline_order, headlines) ==
    IF headline_order = <<>> THEN f
    ELSE LET name == headline_order[Len(headline_order)]
             found == get(headlines, name)
             line == IF found # None
                     THEN <<60, 33, 62>> \o escape_commas(name) \o <<44>>
                          \o escape_commas(unwrap(found)) \o <<10>>
                     ELSE <<>>
         IN write_headlines_backwards(f \o line,
                SubSeq(headline_order, 1, Len(headline_order) - 1), headlines)

RECURSIVE write_headlines(_, _, _)
write_headlines(f, headline_order, headlines) ==
    IF headline_order = <<>> THEN f
    ELSE LET name == headline_order[1]
             found == get(headlines, name)
             line == IF found # None
                     THEN <<60, 33, 62>> \o escape_commas(name) \o <<44>>
                          \o escape_commas(unwrap(found)) \o <<10>>
                     ELSE <<>>
         IN write_headlines(f \o line, Tail(headline_order), headlines)

\* write_cells that writes nothing at all for a cell that is missing.
RECURSIVE write_cells_skip_missing(_, _, _, _)
write_cells_skip_missing(f, row, columns, values) ==
    IF columns = <<>> THEN f
    ELSE LET found == get(values, <<row, columns[1]>>)
             cell == IF found # None THEN <<44>> \o escape_commas(unwrap(found)) ELSE <<>>
         IN write_cells_skip_missing(f \o cell, row, Tail(columns), values)

\* for col in columns { write!(f, ","); if let Some(value) = ... { write!(..) } }
RECURSIVE write_cells(_, _, _, _)
write_cells(f, row, columns, values) ==
    IF columns = <<>> THEN f
    ELSE LET found == get(values, <<row, columns[1]>>)
             cell == IF found # None THEN escape_commas(unwrap(found)) ELSE <<>>
         IN write_cells(f \o <<44>> \o cell, row, Tail(columns), values)

\* The loop of write_data_rows with a newline after every row.
RECURSIVE write_rows_from_always_newline(_, _, _, _, _)
write_rows_from_always_newline(f, i, rows, columns, values) ==
    IF i >= Len(rows) THEN f
    ELSE LET row == rows[i + 1]
             written == write_cells(f \o escape_commas(row), row, columns, values)
         IN write_rows_from_always_newline(written \o <<10>>, i + 1, rows, columns, values)

\* The loop of write_data_rows from its i-th round on (i counts from 0).
RECURSIVE write_rows_from(_, _, _, _, _)
write_rows_from(f, i, rows, columns, values) ==
    IF i >= Len(rows) THEN f
    ELSE LET row == rows[i + 1]
             written == write_cells(f \o escape_commas(row), row, columns, values)
             ended == IF i < Len(rows) - 1 THEN written \o <<10>> ELSE written
         IN write_rows_from(ended, i + 1, rows, columns, values)

write_data_rows(f, rows, columns, values) == write_rows_from(f, 0, rows, columns, values)

\* impl fmt::Display for Dataview
fmt(self) ==
    LET header == write_header_row(<<>>, self.row_header, self.column_order)
        headed == write_headlines(header, self.headline_order, self.headlines)
    IN write_data_rows(headed, self.row_order, self.column_order, self.values)

\* ---------------------------------------------------------------- state
VARIABLES
    builder,      \* the DataviewBuilder of the chain (meaningless once consumed)
    result,       \* Pending, or what build() returned
    hdr_arg,      \* history: None, or Some(label of the last set_row_header call)
    hlog,         \* history: <<key, value>> of the add_headline calls, in order
    vlog,         \* history: <<row, column, value>> of the add_value applications
    sort_calls,   \* history: number of sort_rows / sort_rows_by / sort_rows_with calls
    last_sort,    \* history: None, or Some of the last sort call: its comparison,
                  \*   Len(vlog) at the call, and row_order before and after it
    last_op,      \* history: the last call of the chain
    text,         \* None, or Some(what the last to_string() of the Dataview returned)
    environ,      \* the environment variable and the key file a get_secure_var_or call finds
    secure        \* None, or Some of a get_secure_var_or call: its default and what it returned

vars == <<builder, result, hdr_arg, hlog, vlog, sort_calls, last_sort, last_op, text,
          environ, secure>>

Pending == [tag |-> "Pending"]

\* An environment without the variable and without the key file.
NoEnviron == [variable |-> [state |-> "NotPresent"], key_file |-> [exists |-> FALSE]]

OpCount == Len(hlog) + Len(vlog) + sort_calls

Init ==
    /\ builder = new
    /\ result = Pending
    /\ hdr_arg = None
    /\ hlog = <<>>
    /\ vlog = <<>>
    /\ sort_calls = 0
    /\ last_sort = None
    /\ last_op = [op |-> "new"]
    /\ text = None
    /\ environ = NoEnviron
    /\ secure = None

\* The builder is consumed by build(): no call follows it.
Accumulating == result = Pending

SetRowHeader(label) ==
    /\ Accumulating
    /\ builder' = set_row_header(builder, label)
    /\ hdr_arg' = Some(label)
    /\ last_op' = [op |-> "set_row_header", label |-> label]
    /\ UNCHANGED <<environ, secure, result, hlog, vlog, sort_calls, last_sort, text>>

AddHeadline(key) ==
    LET value == FreshValue(Len(hlog) + 1) IN
    /\ Accumulating
    /\ OpCount < MaxOps
    /\ builder' = add_headline(builder, key, value)
    /\ hlog' = Append(hlog, <<key, value>>)
    /\ last_op' = [op |-> "add_headline", key |-> key, value |-> value]
    /\ UNCHANGED <<environ, secure, result, hdr_arg, vlog, sort_calls, last_sort, text>>

AddValue(row, column) ==
    LET value == FreshValue(Len(vlog) + 1) IN
    /\ Accumulating
    /\ OpCount < MaxOps
    /\ builder' = add_value(builder, row, column, value)
    /\ vlog' = Append(vlog, <<row, column, value>>)
    /\ last_op' = [op |-> "add_value", row |-> row, column |-> column, value |-> value]
    /\ UNCHANGED <<environ, secure, result, hdr_arg, hlog, sort_calls, last_sort, text>>

\* The add_value applications one add_row(row) stands for.
CellLog(row) == [i \in 1..Len(row.cells) |-> <<row.name, row.cells[i][1], row.cells[i][2]>>]

AddRow(name, columns) ==
    LET row == RowOf(name, columns, Len(vlog)) IN
    /\ Accumulating
    /\ OpCount + Len(row.cells) <= MaxOps
    /\ builder' = add_row(builder, row)
    /\ vlog' = vlog \o CellLog(row)
    /\ last_op' = [op |-> "add_row", row |-> row, columns |-> columns]
    /\ UNCHANGED <<environ, secure, result, hdr_arg, hlog, sort_calls, last_sort, text>>

\* What last_sort records of a sort call.
SortRecord(how, before, after) ==
    Some([how |-> how, at |-> Len(vlog), before |-> before, after |-> after])

SortRows ==
    /\ Accumulating
    /\ OpCount < MaxOps
    /\ builder' = sort_rows(builder)
    /\ sort_calls' = sort_calls + 1
    /\ last_sort' = SortRecord(<<"ord">>, builder.row_order, builder'.row_order)
    /\ last_op' = [op |-> "sort_rows"]
    /\ UNCHANGED <<environ, secure, result, hdr_arg, hlog, vlog, text>>

SortRowsBy(f) ==
    /\ Accumulating
    /\ OpCount < MaxOps
    /\ builder' = sort_rows_by(builder, f)
    /\ sort_calls' = sort_calls + 1
    /\ last_sort' = SortRecord(<<"key", f>>, builder.row_order, builder'.row_order)
    /\ last_op' = [op |-> "sort_rows_by", f |-> f]
    /\ UNCHANGED <<environ, secure, result, hdr_arg, hlog, vlog, text>>

SortRowsWith(cmp) ==
    /\ Accumulating
    /\ OpCount < MaxOps
    /\ builder' = sort_rows_with(builder, cmp)
    /\ sort_calls' = sort_calls + 1
    /\ last_sort' = SortRecord(<<"cmp", cmp>>, builder.row_order, builder'.row_order)
    /\ last_op' = [op |-> "sort_rows_with", cmp |-> cmp]
    /\ UNCHANGED <<environ, secure, result, hdr_arg, hlog, vlog, text>>

Build ==
    /\ Accumulating
    /\ result' = build(builder)
    /\ UNCHANGED <<environ, secure, builder, hdr_arg, hlog, vlog, sort_calls, last_sort, last_op, text>>

\* dataview.to_string(): a Dataview exists only as the Ok of a build().
Render ==
    /\ result.tag = "Ok"
    /\ text' = Some(fmt(result.dataview))
    /\ UNCHANGED <<environ, secure, builder, result, hdr_arg, hlog, vlog, sort_calls, last_sort, last_op>>

Next ==
    \/ \E label \in HeaderLabels : SetRowHeader(label)
    \/ \E key \in HeadlineKeys : AddHeadline(key)
    \/ \E row \in RowNames, column \in ColNames : AddValue(row, column)
    \/ \E name \in RowNames, columns \in RowColumns : AddRow(name, columns)
    \/ SortRows
    \/ \E f \in KeyFns : SortRowsBy(f)
    \/ \E cmp \in Comparators : SortRowsWith(cmp)
    \/ Build
    \/ Render

Spec == Init /\ [][Next]_vars

\* ---------------------------------------------------------------- one get_secure_var_or call
\* "plain", "", "+encs" (too short for the prefix), "+encs+" alone, and
\* "+encs+" followed by: 16 bytes that decrypt to "12345", 16 bytes of bad
\* padding, 16 bytes that decrypt to invalid UTF-8, "ZZ", one hex digit.
Repeat(n, b) == [i \in 1..n |-> b]
VariableValues ==
    {<<112, 108, 97, 105, 110>>, <<>>, SubSeq(EncsPrefix, 1, 5), EncsPrefix,
     EncsPrefix \o <<65, 49>> \o Repeat(30, 48),
     EncsPrefix \o <<66, 50>> \o Repeat(30, 48),
     EncsPrefix \o <<67, 51>> \o Repeat(30, 48),
     EncsPrefix \o <<90, 90>>,
     EncsPrefix \o <<65>>}
\* What std::env::var can find under a name.
Variables ==
    {[state |-> "NotPresent"], [state |-> "NotUnicode"]}
        \cup {[state |-> "Set", value |-> v] : v \in VariableValues}

\* "name=value" as a line read without error.
Line(name, v) == EnvOk(name \o <<61>> \o v)
SaltLine == Line(<<115, 97, 108, 116>>, <<56, 57>>)
KeyLine(v) == Line(<<107, 101, 121>>, v)
IvLine(v) == Line(<<105, 118>>, v)
GoodKey == Repeat(64, 65)
GoodIv == Repeat(32, 66)
File(lines) == [exists |-> TRUE, lines |-> lines]
\* No file; a good file; a good file with blank lines, white space and a line
\* without '='; an unexpected name; no iv; an empty file; a line that cannot
\* be read; a key that is not hex; a key too short; an iv that is not hex.
KeyFiles ==
    {[exists |-> FALSE],
     File(<<SaltLine, KeyLine(GoodKey), IvLine(GoodIv)>>),
     File(<<SaltLine, EnvOk(<<>>), EnvOk(<<32, 9>>), EnvOk(<<35>>),
            EnvOk(<<32>> \o KeyLine(GoodKey).value \o <<32>>), IvLine(GoodIv)>>),
     File(<<SaltLine, Line(<<111>>, <<49>>), IvLine(GoodIv)>>),
     File(<<SaltLine, KeyLine(GoodKey)>>),
     File(<<>>),
     File(<<SaltLine, Err("InvalidData"), KeyLine(GoodKey), IvLine(GoodIv)>>),
     File(<<SaltLine, KeyLine(<<90, 90>>), IvLine(GoodIv)>>),
     File(<<SaltLine, KeyLine(<<65, 65>>), IvLine(GoodIv)>>),
     File(<<SaltLine, KeyLine(GoodKey), IvLine(<<90, 90>>)>>)}

\* "dflt", ""
Defaults == {<<100, 102, 108, 116>>, <<>>}

EnvInit ==
    /\ builder = new
    /\ result = Pending
    /\ hdr_arg = None
    /\ hlog = <<>>
    /\ vlog = <<>>
    /\ sort_calls = 0
    /\ last_sort = None
    /\ last_op = [op |-> "new"]
    /\ text = None
    /\ environ \in [variable : Variables, key_file : KeyFiles]
    /\ secure = None

GetSecureVarOr(default) ==
    /\ secure = None
    /\ secure' = Some([default |-> default,
                       returned |-> get_secure_var_or(environ.variable, environ.key_file,
                                                      default)])
    /\ UNCHANGED <<builder, result, hdr_arg, hlog, vlog, sort_calls, last_sort, last_op,
                   text, environ>>

EnvNext == \E default \in Defaults : GetSecureVarOr(default)

EnvSpec == EnvInit /\ [][EnvNext]_vars

\* ---------------------------------------------------------------- one chain, any field content
\* comma, backslash, newline, double quote, '<', 'a'
FieldBytes == {44, 92, 10, 34, 60, 97}
\* Every string of at most n of these bytes.
RECURSIVE StringsUpTo(_)
StringsUpTo(n) ==
    IF n = 0 THEN {<<>>}
    ELSE StringsUpTo(n - 1) \cup
         {Append(s, b) : s \in StringsUpTo(n - 1), b \in FieldBytes}
FieldStrings == StringsUpTo(MaxFieldLen)

\* The six kinds of field of the rendered text.
FieldSlots == {"row_header", "headline_name", "headline_value", "row", "column", "value"}

\* The arguments of the chain: "i,d", "k,", "1", "a,", ",y", "2,", with s in
\* the place that slot names.
ChainArgs(slot, s) ==
    [f \in FieldSlots |->
        IF f = slot THEN s
        ELSE IF f = "row_header" THEN <<105, 44, 100>>
        ELSE IF f = "headline_name" THEN <<107, 44>>
        ELSE IF f = "headline_value" THEN <<49>>
        ELSE IF f = "row" THEN <<97, 44>>
        ELSE IF f = "column" THEN <<44, 121>>
        ELSE <<50, 44>>]

\* DataviewBuilder::new().set_row_header(..).add_headline(..)
\*     .add_value(row, column, value).add_value("b", "x", "3")
FieldInit ==
    \E slot \in FieldSlots, s \in FieldStrings :
        LET a == ChainArgs(slot, s)
            first == <<a["row"], a["column"], a["value"]>>
            second == <<<<98>>, <<120>>, <<51>>>>
        IN /\ builder = add_value(
                            add_value(
                                add_headline(set_row_header(new, a["row_header"]),
                                             a["headline_name"], a["headline_value"]),
                                first[1], first[2], first[3]),
                            second[1], second[2], second[3])
           /\ result = Pending
           /\ hdr_arg = Some(a["row_header"])
           /\ hlog = <<<<a["headline_name"], a["headline_value"]>>>>
           /\ vlog = <<first, second>>
           /\ sort_calls = 0
           /\ last_sort = None
           /\ last_op = [op |-> "add_value", row |-> second[1], column |-> second[2],
                         value |-> second[3]]
           /\ text = None
           /\ environ = NoEnviron
           /\ secure = None

FieldNext ==
    \/ Build
    \/ Render

FieldSpec == FieldInit /\ [][FieldNext]_vars

\* ---------------------------------------------------------------- every way to a Dataview
\* #[derive(Default)] on Dataview: every field the default of its type.
Dataview_default ==
    [row_header |-> <<>>, headlines |-> EmptyMap, headline_order |-> <<>>,
     values |-> EmptyMap, column_order |-> <<>>, row_order |-> <<>>]

\* let dataview = Dataview::default(); the builder at hand is left aside.
DataviewDefault ==
    /\ Accumulating
    /\ result' = Ok(Dataview_default)
    /\ UNCHANGED <<environ, secure, builder, hdr_arg, hlog, vlog, sort_calls, last_sort, last_op, text>>

\* A program with a builder at hand gets its Dataview from build() or from
\* Dataview::default(), and renders it.
PublicNext ==
    \/ Build
    \/ DataviewDefault
    \/ Render

PublicSpec == FieldInit /\ [][PublicNext]_vars

\* ---------------------------------------------------------------- Dataview accessors
\* Dataview::value
value(dataview, row, column) == get(dataview.values, <<row, column>>)
\* Dataview::headline
\* Dataview::row_header (the name row_header is a parameter of the functions above)
Dataview_row_header(dataview) == dataview.row_header

headline(dataview, key) == get(dataview.headlines, key)

\* ---------------------------------------------------------------- vocabulary of the properties
Range(s) == {s[i] : i \in 1..Len(s)}
NoDup(s) == \A i, j \in 1..Len(s) : i # j => s[i] # s[j]
Front(s) == SubSeq(s, 1, Len(s) - 1)
\* The n-th component of every entry of a history.
Column(log, n) == [i \in 1..Len(log) |-> log[i][n]]
\* Index of the first entry of names that is x (x occurs in names).
FirstIdx(names, x) == CHOOSE n \in 1..Len(names) : names[n] = x /\ \A m \in 1..(n - 1) : names[m] # x
\* order lists the distinct entries of names, each once, by first occurrence.
IsFirstSeenOrder(order, names) ==
    /\ NoDup(order)
    /\ Range(order) = Range(names)
    /\ \A i, j \in 1..Len(order) : i < j => FirstIdx(names, order[i]) < FirstIdx(names, order[j])
\* Indices of the entries of a history whose key (its first n components) is k.
Hits(log, n, k) == {i \in 1..Len(log) : SubSeq(log[i], 1, n) = k}
Max(S) == CHOOSE i \in S : \A j \in S : j <= i
\* What a lookup must return after the writes of a history: nothing for a key
\* never written, else the value (component n + 1) of the last write.
LastWritten(log, n, k) ==
    IF Hits(log, n, k) = {} THEN None ELSE Some(log[Max(Hits(log, n, k))][n + 1])

Built == result.tag # "Pending"
BuiltOk == result.tag = "Ok"
HeaderNeverSet == hdr_arg = None
NoCellInserted == vlog = <<>>

C2_ValueMandatory ==
    (Built /\ ~HeaderNeverSet /\ NoCellInserted) => result = Err("MissingValue")

\* A build with a header and two headlines and no cell.
C2_Witness ==
    /\ result = Err("MissingValue")
    /\ ~HeaderNeverSet
    /\ NoCellInserted
    /\ Len(hlog) >= 2

\* ---------------------------------------------------------------- C3
\* C3: build() returns Ok exactly when set_row_header was called (with any
\* label, the empty one included) and at least one cell was inserted, and the
\* value map of every Dataview it returns is non-empty.
C3_OkIffHeaderAndCell ==
    Built =>
        /\ BuiltOk <=> (~HeaderNeverSet /\ ~NoCellInserted)
        /\ BuiltOk => DOMAIN result.dataview.values # {}

\* A successful build whose only header is the empty string and whose cells
\* came from add_row.
C3_Witness ==
    /\ BuiltOk
    /\ hdr_arg = Some(<<>>)
    /\ last_op.op = "add_row"
    /\ result.dataview.row_header = <<>>

\* ---------------------------------------------------------------- C4
\* row_order and column_order of d are duplicate-free and name exactly the
\* rows and the columns of the keys of the value map.
OrdersMatchKeys(row_order, column_order, values) ==
    /\ NoDup(row_order)
    /\ NoDup(column_order)
    /\ Range(row_order) = {k[1] : k \in DOMAIN values}
    /\ Range(column_order) = {k[2] : k \in DOMAIN values}

\* C4: after any sequence of builder operations, sorts included, row_order
\* and column_order hold no duplicate and hold exactly the row names and the
\* column names of the keys of values; the same holds of a built Dataview.
C4_OrdersMatchKeys ==
    /\ OrdersMatchKeys(builder.row_order, builder.column_order,
                       unwrap_or_default(builder.values))
    /\ BuiltOk => OrdersMatchKeys(result.dataview.row_order,
                                  result.dataview.column_order,
                                  result.dataview.values)

\* Two rows inserted as "b" then "a", then reordered by a sort.
C4_Witness ==
    /\ sort_calls > 0
    /\ Len(vlog) >= 2
    /\ vlog[1][1] = <<98>>
    /\ builder.row_order = <<<<97>>, <<98>>>>
    /\ Len(builder.column_order) = 2

\* ---------------------------------------------------------------- C5
\* C5: after any sequence of builder operations headline_order holds exactly
\* the keys of the headline map, each once, in the order of each key's first
\* add_headline call.
C5_HeadlineOrder ==
    /\ Range(builder.headline_order) = DOMAIN unwrap_or_default(builder.headlines)
    /\ IsFirstSeenOrder(builder.headline_order, Column(hlog, 1))

\* Three add_headline calls, the third with the key of the first.
C5_Witness ==
    /\ Len(hlog) = 3
    /\ hlog[1][1] = hlog[3][1]
    /\ hlog[1][1] # hlog[2][1]
    /\ Len(builder.headline_order) = 2

\* ---------------------------------------------------------------- C6
\* C6: when no sort operation is called, column_order is the distinct column
\* names in the order of their first occurrence over all add_value
\* applications and row_order the distinct row names in the order of their
\* first occurrence, in the builder and in the Dataview built from it.
C6_FirstSeenOrder ==
    sort_calls = 0 =>
        /\ IsFirstSeenOrder(builder.column_order, Column(vlog, 2))
        /\ IsFirstSeenOrder(builder.row_order, Column(vlog, 1))
        /\ BuiltOk =>
              /\ IsFirstSeenOrder(result.dataview.column_order, Column(vlog, 2))
              /\ IsFirstSeenOrder(result.dataview.row_order, Column(vlog, 1))

\* A Dataview built without a sort from cells of two rows and two columns,
\* written as ("b", ",y") then ("a", "x").
C6_Witness ==
    /\ BuiltOk
    /\ sort_calls = 0
    /\ Len(vlog) = 2
    /\ result.dataview.row_order = <<<<98>>, <<97>>>>
    /\ result.dataview.column_order = <<<<44, 121>>, <<120>>>>

\* ---------------------------------------------------------------- C7
\* Names to look up: those the chain can have written and others.
LookupNames == RowNames \cup ColNames \cup HeadlineKeys

\* value(row, column) of a built Dataview is absent for a pair never written
\* and else the value of the last add_value applied to the pair.
C7_LastValueWins ==
    BuiltOk =>
        \A r \in LookupNames, c \in LookupNames :
            value(result.dataview, r, c) = LastWritten(vlog, 2, <<r, c>>)

\* A step that applies add_value once to a pair the value map already holds
\* leaves row_order and column_order as they are.
C7_ReinsertKeepsOrders ==
    (/\ Len(vlog') = Len(vlog) + 1
     /\ <<vlog'[Len(vlog')][1], vlog'[Len(vlog')][2]>> \in
            DOMAIN unwrap_or_default(builder.values))
    => /\ builder'.row_order = builder.row_order
       /\ builder'.column_order = builder.column_order

\* C7: in every built Dataview value(row, column) is absent if no add_value
\* was applied to that pair and else is the value of the last one applied to
\* it; re-inserting an existing pair moves neither the row in row_order nor
\* the column in column_order.
C7_OverwriteInPlace == [](C7_LastValueWins) /\ [][C7_ReinsertKeepsOrders]_vars

\* A Dataview built after one pair was written twice with different values:
\* it holds the second one, and another pair was never written.
C7_Witness ==
    /\ BuiltOk
    /\ Len(vlog) = 2
    /\ vlog[1][1] = vlog[2][1]
    /\ vlog[1][2] = vlog[2][2]
    /\ value(result.dataview, vlog[1][1], vlog[1][2]) = Some(vlog[2][3])
    /\ \E c \in ColNames : value(result.dataview, vlog[1][1], c) = None

\* ---------------------------------------------------------------- C8
\* headline(key) of a built Dataview is absent for a key never added and else
\* the value of the last add_headline call with that key; no key is listed
\* twice in headline_order.
C8_LastHeadlineWins ==
    BuiltOk =>
        /\ \A k \in LookupNames :
              headline(result.dataview, k) = LastWritten(hlog, 1, <<k>>)
        /\ NoDup(result.dataview.headline_order)

\* An add_headline call with a key the headline map already holds leaves
\* headline_order as it is.
C8_ReaddKeepsOrder ==
    (/\ Len(hlog') = Len(hlog) + 1
     /\ hlog'[Len(hlog')][1] \in DOMAIN unwrap_or_default(builder.headlines))
    => builder'.headline_order = builder.headline_order

\* C8: in every built Dataview headline(key) is absent if add_headline was
\* never called with the key and else is the value of the last call with it;
\* add_headline with a key already seen neither moves the key in
\* headline_order nor adds a second entry.
C8_HeadlineOverwriteInPlace == [](C8_LastHeadlineWins) /\ [][C8_ReaddKeepsOrder]_vars

\* A Dataview built after one headline key was added twice with different
\* values: one entry, holding the second value.
C8_Witness ==
    /\ BuiltOk
    /\ Len(hlog) = 2
    /\ hlog[1][1] = hlog[2][1]
    /\ result.dataview.headline_order = <<hlog[1][1]>>
    /\ headline(result.dataview, hlog[1][1]) = Some(hlog[2][2])

\* ---------------------------------------------------------------- C9
\* add_value(name, column, value) applied once per cell, the cells taken in
\* the order of the row: the last cell is applied to what the cells before it
\* have made of the builder.
RECURSIVE AddValuePerCell(_, _, _)
AddValuePerCell(self, name, cells) ==
    IF cells = <<>> THEN self
    ELSE LET cell == cells[Len(cells)]
         IN add_value(AddValuePerCell(self, name, Front(cells)), name, cell[1], cell[2])

\* The step is a call of add_row (only add_row records itself in last_op, and
\* every call but build records itself).
IsAddRowStep == result' = Pending /\ last_op'.op = "add_row"

\* C9: add_row(row) takes every builder state to the one that add_value(
\* row.name, column, value), applied once per cell in the cell order of the
\* row, takes it to: same values, row_order and column_order, and nothing
\* else changed.
C9_AddRowIsAddValuePerCell ==
    [][IsAddRowStep =>
          builder' = AddValuePerCell(builder, last_op'.row.name, last_op'.row.cells)]_vars

\* add_row of a row of two cells, the second in a column the builder has not
\* seen and the first in one it has.
C9_Witness ==
    /\ result = Pending
    /\ last_op.op = "add_row"
    /\ Len(last_op.row.cells) = 2
    /\ last_op.row.cells[1][1] # last_op.row.cells[2][1]
    /\ Len(vlog) = 3
    /\ vlog[1][2] = last_op.row.cells[1][1]
    /\ vlog[1][1] # last_op.row.name
    /\ Len(builder.row_order) = 2
    /\ Len(builder.column_order) = 2

\* ---------------------------------------------------------------- C10
\* add_row of a Row without cells leaves the whole builder as it is.
C10_EmptyRowStep ==
    (IsAddRowStep /\ last_op'.row.cells = <<>>) => builder' = builder

\* With a header, and add_row of an empty Row the last call, and no cell
\* ever inserted: no value map, no row, no column, and build() fails with
\* MissingValue.
C10_EmptyRowsStillFail ==
    (/\ last_op.op = "add_row"
     /\ last_op.row.cells = <<>>
     /\ ~HeaderNeverSet
     /\ NoCellInserted)
    => /\ builder.values = None
       /\ builder.row_order = <<>>
       /\ builder.column_order = <<>>
       /\ build(builder) = Err("MissingValue")
       /\ Built => result = Err("MissingValue")

\* C10: add_row of a Row with zero cells changes nothing of the builder: the
\* row name does not enter row_order, no column is registered, an absent
\* value map stays absent, so that a builder with a header and only empty
\* rows still fails build() with MissingValue.
C10_EmptyRowIsNoOp == [](C10_EmptyRowsStillFail) /\ [][C10_EmptyRowStep]_vars

\* build() after a header and add_row of an empty Row: Err(MissingValue).
C10_Witness ==
    /\ result = Err("MissingValue")
    /\ last_op.op = "add_row"
    /\ last_op.row.cells = <<>>
    /\ ~HeaderNeverSet
    /\ builder.row_order = <<>>

\* ---------------------------------------------------------------- C11
\* The Row handed to add_row holds one cell per add_cell call, in call order.
C11_RowKeepsEveryCell ==
    last_op.op = "add_row" => Column(last_op.row.cells, 1) = last_op.columns

\* s continues p.
IsPrefix(p, s) == Len(p) <= Len(s) /\ SubSeq(s, 1, Len(p)) = p
\* What follows the first n entries of s.
DropFirst(s, n) == SubSeq(s, n + 1, Len(s))

\* After add_row(row): for every column of the row the builder holds the
\* value of the last cell of that column; column_order is what it was,
\* followed by the columns of the row it did not hold, each once, in the order
\* of their first cell.
C11_AddRowStep ==
    IsAddRowStep =>
        LET row == last_op'.row
            cols == Column(row.cells, 1)
            unseen == SelectSeq(cols, LAMBDA c : c \notin Range(builder.column_order))
        IN /\ \A c \in Range(cols) :
                 get(unwrap_or_default(builder'.values), <<row.name, c>>)
                     = Some(row.cells[Max({i \in 1..Len(cols) : cols[i] = c})][2])
           /\ NoDup(builder'.column_order)
           /\ IsPrefix(builder.column_order, builder'.column_order)
           /\ IsFirstSeenOrder(DropFirst(builder'.column_order, Len(builder.column_order)),
                               unseen)

\* C11: Row::add_cell appends without deduplication: a Row given the same
\* column twice keeps both cells in order; after add_row the builder holds
\* the value of the later cell for that (row, column), and the column stands
\* once in column_order, at the place of its first occurrence.
C11_DuplicateCellLaterWins == [](C11_RowKeepsEveryCell) /\ [][C11_AddRowStep]_vars

\* After add_value in one column, add_row of a Row with two cells of another
\* column: the second value is held, the column is listed once, second.
C11_Witness ==
    /\ last_op.op = "add_row"
    /\ Len(last_op.row.cells) = 2
    /\ last_op.row.cells[1][1] = last_op.row.cells[2][1]
    /\ last_op.row.cells[1][2] # last_op.row.cells[2][2]
    /\ Len(vlog) = 3
    /\ vlog[1][2] # last_op.row.cells[1][1]
    /\ builder.column_order = <<vlog[1][2], last_op.row.cells[1][1]>>
    /\ unwrap(builder.values)[<<last_op.row.name, last_op.row.cells[1][1]>>]
           = last_op.row.cells[2][2]

\* ---------------------------------------------------------------- C12
\* The builder holds the label of the last set_row_header call, and so does
\* the dataview built from it.
C12_HeaderIsLastArgument ==
    /\ builder.row_header = hdr_arg
    /\ BuiltOk => Dataview_row_header(result.dataview) = unwrap(hdr_arg)

IsSetRowHeaderStep == result' = Pending /\ last_op'.op = "set_row_header"

\* set_row_header(label) replaces the header and nothing else; with the label
\* the builder already holds it changes nothing; no other call touches the
\* header.
C12_HeaderStep ==
    /\ IsSetRowHeaderStep =>
           /\ builder' = [builder EXCEPT !.row_header = Some(last_op'.label)]
           /\ hdr_arg = Some(last_op'.label) => builder' = builder
    /\ ~IsSetRowHeaderStep => builder'.row_header = builder.row_header

\* C12: set_row_header is last-write-wins: the row header of the built
\* dataview is the argument of the last set_row_header call, wherever the
\* calls stand in the chain, and a second call with the same label changes
\* nothing.
C12_LastHeaderWins == [](C12_HeaderIsLastArgument) /\ [][C12_HeaderStep]_vars

\* Built from a chain whose last call, after two values and a sort, is
\* set_row_header with a label that has a comma.
C12_Witness ==
    /\ BuiltOk
    /\ last_op.op = "set_row_header"
    /\ last_op.label = <<105, 44, 100>>
    /\ Len(vlog) = 2
    /\ sort_calls = 1
    /\ Dataview_row_header(result.dataview) = last_op.label

\* ---------------------------------------------------------------- sorting vocabulary
\* t holds the entries of s, each as often as s does.
IsPermutation(s, t) ==
    /\ Len(s) = Len(t)
    /\ \A x \in Range(s) \cup Range(t) :
           Cardinality({i \in 1..Len(s) : s[i] = x}) = Cardinality({i \in 1..Len(t) : t[i] = x})

\* a stands before b in the byte-wise lexicographic order of strings: at the
\* first place where they differ a ends or has the smaller byte.
StrLess(a, b) ==
    \E i \in 1..Len(b) :
        /\ i <= Len(a) + 1
        /\ SubSeq(a, 1, i - 1) = SubSeq(b, 1, i - 1)
        /\ (i = Len(a) + 1 \/ a[i] < b[i])

\* Where x stands in s (the entries of a row_order are distinct).
PosIn(s, x) == CHOOSE i \in 1..Len(s) : s[i] = x

\* after is before reordered so that no entry stands behind one that is
\* Less than it ...
IsOrderedBy(Less(_, _), before, after) ==
    /\ IsPermutation(before, after)
    /\ \A i, j \in 1..Len(after) : i < j => ~Less(after[j], after[i])

\* ... and entries neither of which is Less than the other stand as they
\* stood in before.
IsStable(Less(_, _), before, after) ==
    \A i, j \in 1..Len(after) :
        (i < j /\ ~Less(after[i], after[j]) /\ ~Less(after[j], after[i]))
            => PosIn(before, after[i]) < PosIn(before, after[j])

Ascending(s) == \A i, j \in 1..Len(s) : i < j => StrLess(s[i], s[j])
Descending(s) == \A i, j \in 1..Len(s) : i < j => StrLess(s[j], s[i])

\* The last sort call was of this kind.
LastSortWas(kind) == last_sort # None /\ unwrap(last_sort).how[1] = kind
\* No cell was written after the last sort call.
NoRowSinceSort == unwrap(last_sort).at = Len(vlog)

\* ---------------------------------------------------------------- C13
\* C13: sort_rows() replaces row_order by a permutation of itself that is in
\* ascending order of the row names; when sort_rows() is the last
\* row-affecting operation before build, the built row_order is ascending.
C13_SortRowsAscending ==
    LastSortWas("ord") =>
        /\ IsPermutation(unwrap(last_sort).before, unwrap(last_sort).after)
        /\ Ascending(unwrap(last_sort).after)
        /\ (BuiltOk /\ NoRowSinceSort) =>
               /\ result.dataview.row_order = unwrap(last_sort).after
               /\ Ascending(result.dataview.row_order)

\* Two rows added greatest first, then sort_rows(), then built.
C13_Witness ==
    /\ BuiltOk
    /\ LastSortWas("ord")
    /\ NoRowSinceSort
    /\ Len(unwrap(last_sort).before) = 2
    /\ unwrap(last_sort).before # unwrap(last_sort).after
    /\ result.dataview.row_order = unwrap(last_sort).after

\* ---------------------------------------------------------------- C14
KeyLess(f, a, b) == key_of(f, a) < key_of(f, b)

\* C14: sort_rows_by(key_fn) replaces row_order by a permutation of itself
\* ordered ascending by key_fn(row name), and it is stable: two rows of equal
\* key keep the relative order they had before the call.
C14_SortRowsByKeyStable ==
    LastSortWas("key") =>
        LET s == unwrap(last_sort) IN
        /\ IsOrderedBy(LAMBDA a, b : KeyLess(s.how[2], a, b), s.before, s.after)
        /\ IsStable(LAMBDA a, b : KeyLess(s.how[2], a, b), s.before, s.after)

\* Two rows of equal key, the greater name first: sort_rows_by leaves them so.
C14_Witness ==
    /\ LastSortWas("key")
    /\ Len(unwrap(last_sort).before) = 2
    /\ key_of(unwrap(last_sort).how[2], unwrap(last_sort).before[1])
           = key_of(unwrap(last_sort).how[2], unwrap(last_sort).before[2])
    /\ StrLess(unwrap(last_sort).before[2], unwrap(last_sort).before[1])
    /\ unwrap(last_sort).after = unwrap(last_sort).before
    /\ builder.row_order = unwrap(last_sort).after

\* ---------------------------------------------------------------- C15
CmpLess(c, a, b) == cmp_of(c, a, b) < 0

\* C15: sort_rows_with(comparator) replaces row_order by a permutation of
\* itself ordered by the comparator, stable on ties; with the reverse of the
\* default comparison the resulting row_order is descending by row name.
C15_SortRowsWithComparator ==
    LastSortWas("cmp") =>
        LET s == unwrap(last_sort) IN
        /\ IsOrderedBy(LAMBDA a, b : CmpLess(s.how[2], a, b), s.before, s.after)
        /\ IsStable(LAMBDA a, b : CmpLess(s.how[2], a, b), s.before, s.after)
        /\ s.how[2] = "reverse" => Descending(s.after)

\* Two rows added least first, sorted with the reverse comparator, built.
C15_Witness ==
    /\ BuiltOk
    /\ LastSortWas("cmp")
    /\ unwrap(last_sort).how[2] = "reverse"
    /\ NoRowSinceSort
    /\ Len(unwrap(last_sort).before) = 2
    /\ Ascending(unwrap(last_sort).before)
    /\ result.dataview.row_order = <<unwrap(last_sort).before[2], unwrap(last_sort).before[1]>>

\* ---------------------------------------------------------------- C16
IsSortStep == result' = Pending /\ sort_calls' = sort_calls + 1

\* A sort call leaves every field of the builder but row_order as it was.
C16_SortStep ==
    IsSortStep =>
        /\ builder'.values = builder.values
        /\ builder'.column_order = builder.column_order
        /\ builder'.headlines = builder.headlines
        /\ builder'.headline_order = builder.headline_order
        /\ builder'.row_header = builder.row_header

\* C16: each of sort_rows, sort_rows_by and sort_rows_with changes only
\* row_order: the value map, column_order, the headline map, headline_order
\* and the row header are the same after the call as before it.
C16_SortChangesOnlyRowOrder == [][C16_SortStep]_vars

\* A sort has just reordered two rows of a builder whose header is set and
\* whose two columns stand greatest first.
C16_Witness ==
    /\ result = Pending
    /\ last_op.op \in {"sort_rows", "sort_rows_by", "sort_rows_with"}
    /\ unwrap(last_sort).before # unwrap(last_sort).after
    /\ builder.row_order = unwrap(last_sort).after
    /\ builder.row_header # None
    /\ Len(builder.column_order) = 2
    /\ StrLess(builder.column_order[2], builder.column_order[1])
    /\ Cardinality(DOMAIN unwrap(builder.values)) = 2

\* ---------------------------------------------------------------- rendering vocabulary
\* The strings of ss one after the other.
RECURSIVE Flatten(_)
Flatten(ss) == IF ss = <<>> THEN <<>> ELSE ss[1] \o Flatten(Tail(ss))

\* s with a backslash put before each of its commas.
Escaped(s) == Flatten([i \in 1..Len(s) |-> IF s[i] = 44 THEN <<92, 44>> ELSE <<s[i]>>])

\* Where the line terminators of t stand.
Terminators(t) == {i \in 1..Len(t) : t[i] = 10}
\* The lines of t: what stands before its first terminator, then the lines of
\* what stands after it; a text without terminator is one line (no name or
\* value of the inputs holds a terminator).
RECURSIVE Lines(_)
Lines(t) ==
    IF Terminators(t) = {} THEN <<t>>
    ELSE LET first == CHOOSE i \in Terminators(t) : \A j \in Terminators(t) : i <= j
         IN <<SubSeq(t, 1, first - 1)>> \o Lines(SubSeq(t, first + 1, Len(t)))

\* The commas of a line that separate fields: those no backslash stands before.
FieldSeparators(line) ==
    {i \in 1..Len(line) : line[i] = 44 /\ (i = 1 \/ line[i - 1] # 92)}

Rendered == text # None
\* The dataview the text was rendered from.
Shown == result.dataview

HeaderLine(d) ==
    Escaped(Dataview_row_header(d))
        \o Flatten([i \in 1..Len(d.column_order) |-> <<44>> \o Escaped(d.column_order[i])])
HeadlineLine(d, name) ==
    <<60, 33, 62>> \o Escaped(name) \o <<44>> \o Escaped(d.headlines[name])
Field(d, row, column) ==
    IF <<row, column>> \in DOMAIN d.values THEN Escaped(d.values[<<row, column>>]) ELSE <<>>
RowLine(d, row) ==
    Escaped(row)
        \o Flatten([i \in 1..Len(d.column_order) |-> <<44>> \o Field(d, row, d.column_order[i])])
IsHeadlineLine(line) == Len(line) >= 3 /\ SubSeq(line, 1, 3) = <<60, 33, 62>>

\* ---------------------------------------------------------------- C17
\* C17: the first line of the rendered text is the comma-escaped row header
\* followed, for each entry of column_order in order, by a comma and the
\* comma-escaped column name, then a line terminator.
C17_HeaderLineFirst ==
    Rendered =>
        LET lines == Lines(unwrap(text)) IN
        /\ lines[1] = HeaderLine(Shown)
        /\ Len(lines) > 1
        /\ Cardinality(FieldSeparators(lines[1])) = Len(Shown.column_order)

\* Rendered: a row header with a comma and two columns, one with a comma.
C17_Witness ==
    /\ Rendered
    /\ 44 \in Range(Dataview_row_header(Shown))
    /\ Len(Shown.column_order) = 2
    /\ \E i \in 1..2 : 44 \in Range(Shown.column_order[i])
    /\ SubSeq(unwrap(text), 1, 5) = <<105, 92, 44, 100, 44>>

\* ---------------------------------------------------------------- C18
\* C18: the headline lines come after the header line and before the first
\* data row, one line per name of headline_order in that order, each
\* "<!>" + escaped(name) + "," + escaped(value) followed by a terminator; a
\* dataview without headlines renders no headline line.
C18_HeadlineLines ==
    Rendered =>
        LET lines == Lines(unwrap(text))
            n == Len(Shown.headline_order)
        IN /\ Len(lines) > 1 + n
           /\ \A i \in 1..n : lines[1 + i] = HeadlineLine(Shown, Shown.headline_order[i])
           /\ \A k \in 1..Len(lines) : IsHeadlineLine(lines[k]) <=> k \in 2..(1 + n)
           /\ lines[2 + n] = RowLine(Shown, Shown.row_order[1])

\* Rendered: two headlines, the greater name added first, a comma in a name
\* and in a value.
C18_Witness ==
    /\ Rendered
    /\ Len(Shown.headline_order) = 2
    /\ StrLess(Shown.headline_order[2], Shown.headline_order[1])
    /\ Len(Lines(unwrap(text))) = 4
    /\ IsHeadlineLine(Lines(unwrap(text))[2]) /\ IsHeadlineLine(Lines(unwrap(text))[3])
    /\ ~IsHeadlineLine(Lines(unwrap(text))[4])

\* ---------------------------------------------------------------- C19
\* C19: data rows are rendered in row_order; each is the escaped row name
\* followed, for every column of column_order in order, by one comma and then
\* the escaped value if (row, column) is in the value map or nothing if it is
\* not: every data row has exactly |column_order| field separators and a
\* missing cell, also in the last column, is an empty field.
C19_DataRows ==
    Rendered =>
        LET lines == Lines(unwrap(text))
            n == Len(Shown.headline_order)
        IN /\ Len(lines) = 1 + n + Len(Shown.row_order)
           /\ \A j \in 1..Len(Shown.row_order) :
                  /\ lines[1 + n + j] = RowLine(Shown, Shown.row_order[j])
                  /\ Cardinality(FieldSeparators(lines[1 + n + j])) = Len(Shown.column_order)

\* Rendered: two rows and two columns, the first row without the last column
\* (its line ends with a separator), the second without the first.
C19_Witness ==
    /\ Rendered
    /\ Len(Shown.row_order) = 2
    /\ Len(Shown.column_order) = 2
    /\ <<Shown.row_order[1], Shown.column_order[2]>> \notin DOMAIN Shown.values
    /\ <<Shown.row_order[2], Shown.column_order[1]>> \notin DOMAIN Shown.values
    /\ Shown.headline_order = <<>>
    /\ LET lines == Lines(unwrap(text)) IN
       /\ lines[2][Len(lines[2])] = 44
       /\ FieldSeparators(lines[3]) = {Len(Escaped(Shown.row_order[2])) + 1,
                                       Len(Escaped(Shown.row_order[2])) + 2}

\* ---------------------------------------------------------------- C20
\* C20: a line terminator follows the header line, every headline line and
\* every data row except the last: consecutive data rows are separated by
\* exactly one terminator and nothing is emitted after the last data row.
C20_Terminators ==
    Rendered =>
        LET t == unwrap(text)
            lines == Lines(t)
            n == Len(Shown.headline_order)
            rows == Shown.row_order
        IN /\ Cardinality(Terminators(t)) = 1 + n + (Len(rows) - 1)
           /\ \A k \in 1..Len(lines) : lines[k] # <<>>
           /\ t[Len(t)] # 10
           /\ lines[Len(lines)] = RowLine(Shown, rows[Len(rows)])

\* Rendered: a headline and two data rows, three terminators, none at the end.
C20_Witness ==
    /\ Rendered
    /\ Len(Shown.headline_order) = 1
    /\ Len(Shown.row_order) = 2
    /\ Cardinality(Terminators(unwrap(text))) = 3
    /\ unwrap(text)[Len(unwrap(text))] # 10

\* ---------------------------------------------------------------- C21
\* The text of a dataview in which every field is written as Escaped says:
\* the header line, the headline lines, the data rows.
ExpectedText(d) ==
    HeaderLine(d) \o <<10>>
        \o Flatten([i \in 1..Len(d.headline_order) |->
                       HeadlineLine(d, d.headline_order[i]) \o <<10>>])
        \o Flatten([j \in 1..Len(d.row_order) |->
                       RowLine(d, d.row_order[j])
                           \o (IF j < Len(d.row_order) THEN <<10>> ELSE <<>>)])

\* C21: every field the renderer writes (row header, column name, headline
\* name, headline value, row name, cell value) is the original string with
\* each comma replaced by backslash-comma and every other character, also
\* newline, quote, angle bracket and backslash, left as it is.
C21_OnlyCommasEscaped == Rendered => unwrap(text) = ExpectedText(Shown)

\* Rendered: the row header is backslash, comma; the text starts with
\* backslash, backslash, comma.
C21_Witness ==
    /\ Rendered
    /\ Dataview_row_header(Shown) = <<92, 44>>
    /\ SubSeq(unwrap(text), 1, 4) = <<92, 92, 44, 44>>

C24_DefaultOnlyWhenNotPresent ==
    secure # None =>
        LET call == unwrap(secure)
            variable == environ.variable
        IN /\ variable.state = "NotPresent" => call.returned = EnvOk(call.default)
           /\ (variable.state = "Set" /\ ~starts_with(variable.value, EncsPrefix))
                  => call.returned = EnvOk(variable.value)
           /\ (variable.state = "Set" /\ starts_with(variable.value, EncsPrefix))
                  => call.returned = decrypt(variable.value, environ.key_file)
           /\ variable.state = "NotUnicode" => call.returned.tag = "Err"

\* ---------------------------------------------------------------- C25
\* The rows first written after the last sort call, in the order of their
\* first write.
RowsSinceSort ==
    LET later == Column(DropFirst(vlog, unwrap(last_sort).at), 1)
    IN SelectSeq(later, LAMBDA name : name \notin Range(unwrap(last_sort).after))

\* order is what the last sort call left, followed by the rows first written
\* since, in first-seen order.
IsSortedThenAppended(order) ==
    /\ IsPrefix(unwrap(last_sort).after, order)
    /\ IsFirstSeenOrder(DropFirst(order, Len(unwrap(last_sort).after)), RowsSinceSort)

\* C25: a sort reorders the rows present at the call: a row first inserted by
\* add_value or add_row after a sort call is appended at the end of
\* row_order, so the built row_order is the sorted rows followed by the later
\* rows in first-seen order.
C25_SortIsOneShot ==
    last_sort # None =>
        /\ IsSortedThenAppended(builder.row_order)
        /\ BuiltOk => IsSortedThenAppended(result.dataview.row_order)

\* Built: a row, a sort, then a row with a smaller name, which stands last.
C25_Witness ==
    /\ BuiltOk
    /\ last_sort # None
    /\ unwrap(last_sort).after # <<>>
    /\ RowsSinceSort # <<>>
    /\ StrLess(RowsSinceSort[1], unwrap(last_sort).after[1])
    /\ result.dataview.row_order = unwrap(last_sort).after \o RowsSinceSort

\* ---------------------------------------------------------------- C26
\* C26: in every builder state the value map is absent if and only if
\* row_order is empty, if and only if column_order is empty, and a value map
\* that is present is never empty; so build's check for an absent value map
\* (reached once the header is there) returns MissingValue exactly when no
\* cell was inserted.
C26_ValueMapAbsentIffNoCell ==
    /\ builder.values = None <=> builder.row_order = <<>>
    /\ builder.values = None <=> builder.column_order = <<>>
    /\ builder.values = None <=> NoCellInserted
    /\ builder.values # None => DOMAIN unwrap(builder.values) # {}
    /\ Built => (result = Err("MissingValue") <=> (~HeaderNeverSet /\ NoCellInserted))

\* Built to MissingValue after a header, a headline and an empty Row: no
\* value map, no row, no column.
C26_Witness ==
    /\ result = Err("MissingValue")
    /\ last_op.op = "add_row"
    /\ hlog # <<>>
    /\ builder.values = None
    /\ builder.row_order = <<>> /\ builder.column_order = <<>>

\* ---------------------------------------------------------------- C27
\* A field as it is written, every byte with where it comes from.
TaggedField(s) ==
    Flatten([i \in 1..Len(s) |->
                IF s[i] = 44 THEN <<<<92, "field">>, <<44, "field">>>>
                ELSE <<<<s[i], "field">>>>])
\* The fields of a line with a separator between each two.
TaggedLine(fields) ==
    TaggedField(fields[1])
        \o Flatten([i \in 1..(Len(fields) - 1) |->
                       <<<<44, "separator">>>> \o TaggedField(fields[i + 1])])

HeaderFields(d) == <<Dataview_row_header(d)>> \o d.column_order
RowFields(d, row) ==
    <<row>> \o [i \in 1..Len(d.column_order) |->
                   IF <<row, d.column_order[i]>> \in DOMAIN d.values
                   THEN d.values[<<row, d.column_order[i]>>] ELSE <<>>]

\* The text before the j-th data row.
TextBeforeRow(d, j) ==
    HeaderLine(d) \o <<10>>
        \o Flatten([i \in 1..Len(d.headline_order) |->
                       HeadlineLine(d, d.headline_order[i]) \o <<10>>])
        \o Flatten([k \in 1..(j - 1) |-> RowLine(d, d.row_order[k]) \o <<10>>])

\* The line of these fields stands in t from place start on; each of its
\* commas has a backslash right before it exactly if it comes from a field;
\* and the commas without one cut the line into as many fields as it has.
Distinguishable(t, start, fields) ==
    LET line == TaggedLine(fields)
        IsEscaped(i) == i > 1 /\ line[i - 1][1] = 92
    IN /\ start + Len(line) - 1 <= Len(t)
       /\ SubSeq(t, start, start + Len(line) - 1) = [i \in 1..Len(line) |-> line[i][1]]
       /\ \A i \in 1..Len(line) :
              line[i][1] = 44 => (IsEscaped(i) <=> line[i][2] = "field")
       /\ Cardinality({i \in 1..Len(line) : line[i][1] = 44 /\ ~IsEscaped(i)}) + 1
              = Len(fields)

SeparatorsDistinguishable(d, t) ==
    /\ Distinguishable(t, 1, HeaderFields(d))
    /\ \A j \in 1..Len(d.row_order) :
           Distinguishable(t, Len(TextBeforeRow(d, j)) + 1, RowFields(d, d.row_order[j]))

EndsWithBackslash(s) == s # <<>> /\ s[Len(s)] = 92
\* No field of the header line or of a data row that a separator follows (all
\* but the field of the last column) ends with a backslash.
NoBackslashBeforeSeparator(d) ==
    /\ \A i \in 1..Len(d.column_order) : ~EndsWithBackslash(HeaderFields(d)[i])
    /\ \A j \in 1..Len(d.row_order) : \A i \in 1..Len(d.column_order) :
           ~EndsWithBackslash(RowFields(d, d.row_order[j])[i])

RECURSIVE WithHeadlines(_, _)
WithHeadlines(self, log) ==
    IF log = <<>> THEN self
    ELSE add_headline(WithHeadlines(self, Front(log)), log[Len(log)][1], log[Len(log)][2])
RECURSIVE WithValues(_, _)
WithValues(self, log) ==
    IF log = <<>> THEN self
    ELSE add_value(WithValues(self, Front(log)),
                   log[Len(log)][1], log[Len(log)][2], log[Len(log)][3])
Canonical ==
    WithValues(WithHeadlines(IF hdr_arg = None THEN new
                             ELSE set_row_header(new, unwrap(hdr_arg)), hlog), vlog)

IsCallOf(ops) == result' = Pending /\ last_op'.op \in ops
HeaderKept == builder'.row_header = builder.row_header
HeadlinesKept ==
    /\ builder'.headlines = builder.headlines
    /\ builder'.headline_order = builder.headline_order
GridKept ==
    /\ builder'.values = builder.values
    /\ builder'.column_order = builder.column_order
    /\ builder'.row_order = builder.row_order

\* A call of one kind leaves what the other two kinds accumulate as it was.
C28_FrameStep ==
    /\ IsCallOf({"set_row_header"}) => (HeadlinesKept /\ GridKept)
    /\ IsCallOf({"add_headline"}) => (HeaderKept /\ GridKept)
    /\ IsCallOf({"add_value", "add_row"}) => (HeaderKept /\ HeadlinesKept)

\* Whatever the interleaving was, the builder is the one the canonical order
\* of the same calls gives (row_order aside once a sort was called), and so
\* is what build returns.
C28_AsCanonical ==
    /\ [builder EXCEPT !.row_order = <<>>] = [Canonical EXCEPT !.row_order = <<>>]
    /\ sort_calls = 0 =>
           /\ builder = Canonical
           /\ Built => result = build(Canonical)

\* C28: the header, the headlines and the cell grid are accumulated
\* independently: set_row_header changes only the row header, add_headline
\* only the headline map and headline_order, add_value and add_row only the
\* value map, column_order and row_order; so any two interleavings of the
\* same calls that keep the order of the calls of each kind build equal
\* dataviews.
C28_AccumulatedIndependently == [](C28_AsCanonical) /\ [][C28_FrameStep]_vars

\* Built to Ok from two cell writes and a headline with the header set
\* last, where the canonical order sets it first.
C28_Witness ==
    /\ BuiltOk
    /\ sort_calls = 0
    /\ last_op.op = "set_row_header"
    /\ Len(hlog) = 1 /\ Len(vlog) = 2
    /\ builder.headline_order # <<>>
    /\ result.dataview.row_header = unwrap(hdr_arg)

\* ---------------------------------------------------------------- C29
\* C29: a Dataview is obtained only as the Ok of a build, so every Dataview
\* that is rendered or queried has a row header that was set by a call and
\* at least one cell, and the renderer is never run with an empty row_order.
C29_DataviewOnlyFromBuild ==
    /\ BuiltOk =>
           /\ result = build(builder)
           /\ builder.row_header = Some(Dataview_row_header(result.dataview))
           /\ DOMAIN result.dataview.values # {}
    /\ Rendered => Shown.row_order # <<>>

====
